---- MODULE Spec2Model ----
(***************************************************************************)
(* Model of movieai.py: the Streamlit scene / image-prompt generator.      *)
(*                                                                         *)
(* A text (Python str) is a sequence of tokens; a token is either one      *)
(* character (" ", "a") or a whole literal of the source that is never     *)
(* split.  Substring search, strip() and join() work on these sequences.   *)
(* Every user interaction is one rerun of main(); one action of the model  *)
(* is one such rerun.                                                      *)
(***************************************************************************)
EXTENDS Integers, Sequences, FiniteSets, TLC

(* ---------------------------------------------------------------- bounds *)
MaxClicks == 2
MaxContentLen == 3
MaxFaultLen == 2

(* ------------------------------------------------------ program constants *)
SceneMaxTokens == 2500
ImageMaxTokens == 1000
TemperatureX100 == 85

MOVIE_SHOT_TYPES ==
    << "Master/Establishing Shot", "Full Shot", "Medium Shot", "Medium Close-Up Shot",
       "Close-Up Shot", "Extreme Close-Up Shot", "Extreme Angle", "Bird's-Eye View",
       "Low Angle", "Depth Staging", "Planar Staging", "Pull Back Reveal",
       "Contract Dolly", "Point of View (POV)", "Dark Voyeur", "Shadow",
       "Follow Shot", "Over the shoulder" >>

ModelNames ==
    << "llama-3.3-70b-versatile", "openai/gpt-oss-120b", "mixtral-8x7b-32768",
       "llama-3.1-70b-versatile", "gemma-7b-it" >>

Modes == << "Script Generation", "Image Prompt Generator", "Export Tools" >>

OutputFormats == << "Shooting Script", "Dialog Script", "Storyboard Text" >>

LengthStyles ==
    << "Film Scene (Longer Scene - 3+ min)", "YouTube (Medium Video - 1-3 min)",
       "TikTok (Short Video - ~30s)" >>

ArtStyles ==
    << "Cinematic Realism", "Concept Art", "Anime", "Pixel Art", "Illustration",
       "Photorealistic" >>

Moods == << "Epic", "Dark", "Dreamy", "Hopeful", "Tense", "Romantic", "Melancholic" >>

Sentinel == << "Failed to generate content due to an external API error." >>

OrgRestrictedMarker == << "organization_restricted" >>

InvalidKeyMarker == << "Invalid API Key" >>

ShotPrefix ==
    "Please incorporate a variety of camera shots and angles from this list into your scene descriptions and stage directions: "

StoryboardFragment ==
    "Focus on visual descriptions for each shot, suitable for a text-based storyboard. Describe key visuals and camera movements. Do not include dialogue unless essential for a scene beat. For each 'panel', briefly describe the shot and action. Use clear section headers for each panel."

DialogFragment ==
    "Prioritize character dialogue and essential action beats, with minimal camera directions. Format as a standard dialogue-focused screenplay."

ShootingFragment ==
    "Include detailed scene headings, character dialogue, specific action descriptions, and explicit camera shot descriptions. Format as a comprehensive shooting script, adhering to standard industry conventions (CAPS for characters/headings, proper indentation)."

TikTokFragment ==
    "Keep the scene extremely short and impactful, ideal for a quick social media video. Aim for 3-5 concise shots/dialogue exchanges."

YouTubeFragment ==
    "Generate a single, coherent scene suitable for a short online video. Aim for 5-10 shots/dialogue exchanges."

FilmFragment ==
    "Develop a more detailed and expansive scene, suitable for a segment of a film. Include more character interaction and environmental detail. Aim for 10-20 shots/dialogue exchanges. The scene should be long enough to fill 3+ minutes."

PreambleText ==
    "You are an AI writer and director. Your task is to generate creative content for a single scene based on the user's requested movie type, output format, and desired video length/style."

ClosingText == "Ensure the output is well-structured according to the chosen format."

(* ------------------------------------------------------------ text helpers *)
Range(s) == { s[i] : i \in 1..Len(s) }

SeqsUpTo(n, S) == UNION { [1..k -> S] : k \in 0..n }

\* Python `needle in hay` on strings: needle occurs as a contiguous run.
Contains(hay, needle) ==
    \E i \in 0..(Len(hay) - Len(needle)) :
        \A j \in 1..Len(needle) : hay[i + j] = needle[j]

IsSpace(c) == c \in {" ", "\n", "\t"}

RECURSIVE LStrip(_)
LStrip(s) == IF s # << >> /\ IsSpace(Head(s)) THEN LStrip(Tail(s)) ELSE s

RECURSIVE RStrip(_)
RStrip(s) ==
    IF s # << >> /\ IsSpace(s[Len(s)]) THEN RStrip(SubSeq(s, 1, Len(s) - 1)) ELSE s

\* str.strip(): leading and trailing whitespace removed, inner kept.
Strip(s) == RStrip(LStrip(s))

\* sep.join(items), every item one token.
RECURSIVE Join(_, _)
Join(sep, items) ==
    IF items = << >> THEN << >>
    ELSE IF Len(items) = 1 THEN << items[1] >>
    ELSE << items[1], sep >> \o Join(sep, Tail(items))

(* ------------------------------------------------------------ input domains *)
FreeTexts == { << >>, << " " >>, << "Horror" >> }

ContentChars == { " ", "a" }

Contents == SeqsUpTo(MaxContentLen, ContentChars)

\* A choice of the response: message.content is a str or None.
Choice(has, c) == [hasContent |-> has, content |-> c]

FirstChoices == { Choice(TRUE, c) : c \in Contents } \cup { Choice(FALSE, << >>) }

LaterChoices == { << >>, << Choice(TRUE, << "b" >>) >> }

FaultTokens == { "organization_restricted", "Invalid API Key", "x" }

FaultTexts == SeqsUpTo(MaxFaultLen, FaultTokens)

Fault(t) == [kind |-> "fault", text |-> t, choices |-> << >>]

Response(cs) == [kind |-> "response", text |-> << >>, choices |-> cs]

NoCall == [kind |-> "none", text |-> << >>, choices |-> << >>]

\* What chat.completions.create can do: raise with some text, or return a
\* response whose choices list may be empty.
EndpointOutcomes ==
    { Fault(t) : t \in FaultTexts }
    \cup { Response(<< f >> \o r) : f \in FirstChoices, r \in LaterChoices }
    \cup { Response(<< >>) }

Credentials == { "missing", "init_failed", "ok" }

\* The options the user picks in the three selectboxes that only feed the
\* request: the default (first) option and one other.
PickedModels == { "llama-3.3-70b-versatile", "gemma-7b-it" }

PickedStyles == { "Cinematic Realism", "Pixel Art" }

PickedMoods == { "Epic", "Melancholic" }

(* ------------------------------------------------------------------ state *)
VARIABLES
    cred,                     \* GROQ_API_KEY lookup / Groq() construction
    mode,                     \* st.radio "Select Mode:"
    model_name,               \* sidebar selectbox "AI Model:"
    movie_type_input,         \* text input of the script mode
    output_format_input,      \* selectbox "Select Output Format:"
    video_length_style_input, \* selectbox "Select Video Length/Style:"
    subject,                  \* text input of the image mode
    style,                    \* selectbox "Select Art Style:"
    mood,                     \* selectbox "Select Mood/Tone:"
    generated_script,         \* st.session_state.generated_script
    clicks,                   \* generation clicks so far
    calls,                    \* chat.completions.create calls so far
    lastAction,               \* the interaction that caused the last rerun
    lastEndpoint,             \* what the endpoint did in the last rerun
    lastRequest,              \* the request issued in the last rerun
    alerts,                   \* st.error / st.warning / st.success of the last rerun
    runCompleted              \* the last rerun of main() ran to its end

vars ==
    << cred, mode, model_name, movie_type_input, output_format_input,
       video_length_style_input, subject, style, mood, generated_script,
       clicks, calls, lastAction, lastEndpoint, lastRequest, alerts, runCompleted >>

widgets ==
    << mode, model_name, movie_type_input, output_format_input,
       video_length_style_input, subject, style, mood >>

(* ------------------------------------------------------- prompt composition *)
ShotInstructions == << ShotPrefix >> \o Join(", ", MOVIE_SHOT_TYPES) \o << "." >>

\* Faulty variant: the storyboard and dialog fragments are exchanged.
FormatInstructions_swapped(output_format) ==
    IF output_format = "Storyboard Text" THEN << DialogFragment >>
    ELSE IF output_format = "Dialog Script" THEN << StoryboardFragment >>
    ELSE IF output_format = "Shooting Script" THEN << ShootingFragment >>
    ELSE << >>

FormatInstructions(output_format) ==
    IF output_format = "Storyboard Text" THEN << StoryboardFragment >>
    ELSE IF output_format = "Dialog Script" THEN << DialogFragment >>
    ELSE IF output_format = "Shooting Script" THEN << ShootingFragment >>
    ELSE << >>

LengthInstructions(video_length_style) ==
    IF video_length_style = "TikTok (Short Video - ~30s)" THEN << TikTokFragment >>
    ELSE IF video_length_style = "YouTube (Medium Video - 1-3 min)" THEN << YouTubeFragment >>
    ELSE IF video_length_style = "Film Scene (Longer Scene - 3+ min)" THEN << FilmFragment >>
    ELSE << >>

Preamble(movie_type, output_format, video_length_style) ==
    << PreambleText, "Movie Type: " >> \o movie_type
    \o << "Output Format: ", output_format,
          "Video Length/Style: ", video_length_style >>

ScenePrompt(movie_type, output_format, video_length_style) ==
    Preamble(movie_type, output_format, video_length_style)
    \o ShotInstructions
    \o FormatInstructions(output_format)
    \o LengthInstructions(video_length_style)
    \o << ClosingText >>

ImagePrompt(subj, sty, md) ==
    << "Create a detailed image prompt for an AI art generator. Scene: " >>
    \o subj
    \o << ". Art style: ", sty, ". Mood: ", md,
          ". Include cinematic camera angles, lighting, and composition." >>

Request(kind, topic, prompt, model, maxTokens) ==
    [issued |-> TRUE, site |-> kind, topic |-> topic, prompt |-> prompt,
     model |-> model, temperature |-> TemperatureX100, max_tokens |-> maxTokens]

NoRequest ==
    [issued |-> FALSE, site |-> "none", topic |-> << >>, prompt |-> << >>,
     model |-> "", temperature |-> 0, max_tokens |-> 0]

(* ------------------------------------------------- the call and its faults *)
Raised(cls, msg) == [raised |-> TRUE, class |-> cls, err |-> msg, value |-> << >>]

Returned(v) == [raised |-> FALSE, class |-> "", err |-> << >>, value |-> v]

\* Faulty variant: the last choice is read instead of the first.
ExtractFirst_last(response) ==
    IF response.choices = << >>
    THEN Raised("IndexError", << "list index out of range" >>)
    ELSE IF ~ response.choices[Len(response.choices)].hasContent
    THEN Raised("AttributeError", << "'NoneType' object has no attribute 'strip'" >>)
    ELSE Returned(Strip(response.choices[Len(response.choices)].content))

\* response.choices[0].message.content.strip()
ExtractFirst(response) ==
    IF response.choices = << >>
    THEN Raised("IndexError", << "list index out of range" >>)
    ELSE IF ~ response.choices[1].hasContent
    THEN Raised("AttributeError", << "'NoneType' object has no attribute 'strip'" >>)
    ELSE Returned(Strip(response.choices[1].content))

\* The body of the try block: the create call, then the extraction.
TryBody(ep) ==
    IF ep.kind = "fault" THEN Raised("APIError", ep.text) ELSE ExtractFirst(ep)

\* Faulty variant: only the client's own error class is caught.
CaughtOnlyAPIError(cls) == cls = "APIError"

\* `except Exception`: every class raised here derives from Exception.
CaughtByExceptException(cls) == cls \in { "APIError", "IndexError", "AttributeError" }

Alert(level, kind, text) == [level |-> level, kind |-> kind, text |-> text]

\* Faulty variant: the two substring tests are made in the other order.
ClassifyError_keyFirst(error_message) ==
    IF Contains(error_message, InvalidKeyMarker)
    THEN Alert("error", "InvalidCredential",
               << "Invalid API Key: Please verify your GROQ_API_KEY in environment variables or secrets." >>)
    ELSE IF Contains(error_message, OrgRestrictedMarker)
    THEN Alert("error", "AccessRestricted",
               << "API Access Restricted: Your Groq organization has been restricted. Please contact Groq support." >>)
    ELSE Alert("error", "Unclassified", << "Error generating content: " >> \o error_message)

\* The if / elif / else of the except block of generate_creative_content.
ClassifyError(error_message) ==
    IF Contains(error_message, OrgRestrictedMarker)
    THEN Alert("error", "AccessRestricted",
               << "API Access Restricted: Your Groq organization has been restricted. Please contact Groq support." >>)
    ELSE IF Contains(error_message, InvalidKeyMarker)
    THEN Alert("error", "InvalidCredential",
               << "Invalid API Key: Please verify your GROQ_API_KEY in environment variables or secrets." >>)
    ELSE Alert("error", "Unclassified", << "Error generating content: " >> \o error_message)

\* Faulty variant: the except block returns the error text, not the sentinel.
generate_creative_content_errText(movie_type, output_format, video_length_style, model, ep) ==
    LET prompt == ScenePrompt(movie_type, output_format, video_length_style)
        r == TryBody(ep)
        req == Request("scene", movie_type, prompt, model, SceneMaxTokens)
    IN  IF ~ r.raised
        THEN [returned |-> TRUE, value |-> r.value, alerts |-> << >>,
              request |-> req, calls |-> 1]
        ELSE [returned |-> TRUE, value |-> r.err,
              alerts |-> << ClassifyError(r.err) >>, request |-> req, calls |-> 1]

\* Faulty variant: a faulted call is attempted a second time.
generate_creative_content_retry(movie_type, output_format, video_length_style, model, ep) ==
    LET prompt == ScenePrompt(movie_type, output_format, video_length_style)
        r == TryBody(ep)
        req == Request("scene", movie_type, prompt, model, SceneMaxTokens)
    IN  IF ~ r.raised
        THEN [returned |-> TRUE, value |-> r.value, alerts |-> << >>,
              request |-> req, calls |-> 1]
        ELSE [returned |-> TRUE, value |-> Sentinel,
              alerts |-> << ClassifyError(r.err) >>, request |-> req, calls |-> 2]

\* generate_creative_content: the prompt, the single call, the except block.
generate_creative_content(movie_type, output_format, video_length_style, model, ep) ==
    LET prompt == ScenePrompt(movie_type, output_format, video_length_style)
        r == TryBody(ep)
        req == Request("scene", movie_type, prompt, model, SceneMaxTokens)
    IN  IF ~ r.raised
        THEN [returned |-> TRUE, value |-> r.value, alerts |-> << >>,
              request |-> req, calls |-> 1]
        ELSE IF CaughtByExceptException(r.class)
        THEN [returned |-> TRUE, value |-> Sentinel,
              alerts |-> << ClassifyError(r.err) >>, request |-> req, calls |-> 1]
        ELSE [returned |-> FALSE, value |-> << >>, alerts |-> << >>,
              request |-> req, calls |-> 1]

\* Faulty variant: the except block of the image site stores the sentinel.
image_prompt_call_sentinel(slot, subj, sty, md, model, ep) ==
    LET prompt == ImagePrompt(subj, sty, md)
        r == TryBody(ep)
        req == Request("image", subj, prompt, model, ImageMaxTokens)
    IN  IF ~ r.raised
        THEN [completed |-> TRUE, slot |-> r.value,
              alerts |-> << Alert("success", "ImagePromptReady", << "Image prompt ready!" >>) >>,
              request |-> req, calls |-> 1]
        ELSE [completed |-> TRUE, slot |-> Sentinel,
              alerts |-> << Alert("error", "ImagePromptError",
                                  << "Error generating image prompt: " >> \o r.err) >>,
              request |-> req, calls |-> 1]

\* The try / except of the image-prompt call site: the slot is assigned in
\* the try body only, the except block reports and assigns nothing.
image_prompt_call(slot, subj, sty, md, model, ep) ==
    LET prompt == ImagePrompt(subj, sty, md)
        r == TryBody(ep)
        req == Request("image", subj, prompt, model, ImageMaxTokens)
    IN  IF ~ r.raised
        THEN [completed |-> TRUE, slot |-> r.value,
              alerts |-> << Alert("success", "ImagePromptReady", << "Image prompt ready!" >>) >>,
              request |-> req, calls |-> 1]
        ELSE IF CaughtByExceptException(r.class)
        THEN [completed |-> TRUE, slot |-> slot,
              alerts |-> << Alert("error", "ImagePromptError",
                                  << "Error generating image prompt: " >> \o r.err) >>,
              request |-> req, calls |-> 1]
        ELSE [completed |-> FALSE, slot |-> slot, alerts |-> << >>,
              request |-> req, calls |-> 1]

(* ------------------------------------------------------------- main(), top *)
\* Faulty variant: the guard lets the empty string through.
Truthy_any(text) == TRUE

\* `elif movie_type_input:` / `elif subject:` -- a str is true unless empty.
Truthy(text) == text # << >>

\* Faulty variant: a failed Groq() construction leaves a usable client.
ClientAvailable_unlessMissing(c) == c # "missing"

\* groq_client_instance is None unless the key is found and Groq() succeeds.
ClientAvailable(c) == c = "ok"

StartupAlerts(c) ==
    IF c = "missing"
    THEN << Alert("error", "MissingCredential",
                  << "Groq API key not found. Please set GROQ_API_KEY as an environment variable or in Streamlit secrets." >>) >>
    ELSE IF c = "init_failed"
    THEN << Alert("error", "ClientInitFailure", << "Failed to initialize Groq client: " >>) >>
    ELSE << >>

(* ------------------------------------------------------------------- Init *)
Init ==
    /\ cred \in Credentials
    /\ mode = Modes[1]
    /\ model_name = ModelNames[1]
    /\ movie_type_input = << >>
    /\ output_format_input = OutputFormats[1]
    /\ video_length_style_input = LengthStyles[1]
    /\ subject = << >>
    /\ style = ArtStyles[1]
    /\ mood = Moods[1]
    /\ generated_script = << >>
    /\ clicks = 0
    /\ calls = 0
    /\ lastAction = "start"
    /\ lastEndpoint = NoCall
    /\ lastRequest = NoRequest
    /\ alerts = StartupAlerts(cred)
    /\ runCompleted = TRUE

(* ---------------------------------------------------------------- actions *)
\* A rerun of main() in which no generate button was pressed.
PlainRerun(what) ==
    /\ lastAction' = what
    /\ lastEndpoint' = NoCall
    /\ lastRequest' = NoRequest
    /\ alerts' = StartupAlerts(cred)
    /\ runCompleted' = TRUE
    /\ UNCHANGED << cred, generated_script, clicks, calls >>

\* The radio: only the branch of the chosen mode renders its widgets, and
\* Streamlit drops the value of a widget that a run does not render.
SelectMode ==
    \E m \in Range(Modes) :
        /\ m # mode
        /\ mode' = m
        /\ movie_type_input' = << >>
        /\ output_format_input' = OutputFormats[1]
        /\ video_length_style_input' = LengthStyles[1]
        /\ subject' = << >>
        /\ style' = ArtStyles[1]
        /\ mood' = Moods[1]
        /\ UNCHANGED model_name
        /\ PlainRerun("select_mode")

SelectModel ==
    \E m \in PickedModels \cap Range(ModelNames) :
        /\ m # model_name
        /\ model_name' = m
        /\ UNCHANGED << mode, movie_type_input, output_format_input,
                        video_length_style_input, subject, style, mood >>
        /\ PlainRerun("select_model")

EditMovieType ==
    \E t \in FreeTexts :
        /\ mode = Modes[1]
        /\ t # movie_type_input
        /\ movie_type_input' = t
        /\ UNCHANGED << mode, model_name, output_format_input,
                        video_length_style_input, subject, style, mood >>
        /\ PlainRerun("edit_movie_type")

SelectOutputFormat ==
    \E f \in Range(OutputFormats) :
        /\ mode = Modes[1]
        /\ f # output_format_input
        /\ output_format_input' = f
        /\ UNCHANGED << mode, model_name, movie_type_input,
                        video_length_style_input, subject, style, mood >>
        /\ PlainRerun("select_format")

SelectLengthStyle ==
    \E l \in Range(LengthStyles) :
        /\ mode = Modes[1]
        /\ l # video_length_style_input
        /\ video_length_style_input' = l
        /\ UNCHANGED << mode, model_name, movie_type_input,
                        output_format_input, subject, style, mood >>
        /\ PlainRerun("select_length")

EditSubject ==
    \E t \in FreeTexts :
        /\ mode = Modes[2]
        /\ t # subject
        /\ subject' = t
        /\ UNCHANGED << mode, model_name, movie_type_input, output_format_input,
                        video_length_style_input, style, mood >>
        /\ PlainRerun("edit_subject")

SelectStyle ==
    \E s \in PickedStyles \cap Range(ArtStyles) :
        /\ mode = Modes[2]
        /\ s # style
        /\ style' = s
        /\ UNCHANGED << mode, model_name, movie_type_input, output_format_input,
                        video_length_style_input, subject, mood >>
        /\ PlainRerun("select_style")

SelectMood ==
    \E m \in PickedMoods \cap Range(Moods) :
        /\ mode = Modes[2]
        /\ m # mood
        /\ mood' = m
        /\ UNCHANGED << mode, model_name, movie_type_input, output_format_input,
                        video_length_style_input, subject, style >>
        /\ PlainRerun("select_mood")

\* Faulty variant: a rejected click stores the sentinel in the slot.
Rejected_overwrites(alert) ==
    /\ alerts' = StartupAlerts(cred) \o << alert >>
    /\ lastEndpoint' = NoCall
    /\ lastRequest' = NoRequest
    /\ runCompleted' = TRUE
    /\ generated_script' = Sentinel
    /\ UNCHANGED calls

\* A generate button whose guard chain ends in st.error or st.warning.
Rejected(alert) ==
    /\ alerts' = StartupAlerts(cred) \o << alert >>
    /\ lastEndpoint' = NoCall
    /\ lastRequest' = NoRequest
    /\ runCompleted' = TRUE
    /\ UNCHANGED << generated_script, calls >>

\* st.button("Generate Scene Content")
ClickGenerateScene ==
    /\ mode = Modes[1]
    /\ clicks < MaxClicks
    /\ clicks' = clicks + 1
    /\ lastAction' = "click_scene"
    /\ UNCHANGED << cred, widgets >>
    /\ IF ~ ClientAvailable(cred)
       THEN Rejected(Alert("error", "CannotRun",
                           << "Cannot run generation. Please resolve the API Key issue." >>))
       ELSE IF Truthy(movie_type_input)
       THEN \E ep \in EndpointOutcomes :
                LET g == generate_creative_content(movie_type_input, output_format_input,
                                                   video_length_style_input, model_name, ep)
                IN  /\ calls' = calls + g.calls
                    /\ lastEndpoint' = ep
                    /\ lastRequest' = g.request
                    /\ alerts' = StartupAlerts(cred) \o g.alerts
                    /\ runCompleted' = g.returned
                    /\ generated_script' = IF g.returned THEN g.value ELSE generated_script
       ELSE Rejected(Alert("warning", "EmptyMovieType",
                           << "Please enter a movie type to generate content." >>))

\* st.button("Generate Image Prompt")
ClickGenerateImage ==
    /\ mode = Modes[2]
    /\ clicks < MaxClicks
    /\ clicks' = clicks + 1
    /\ lastAction' = "click_image"
    /\ UNCHANGED << cred, widgets >>
    /\ IF ~ ClientAvailable(cred)
       THEN Rejected(Alert("error", "CannotRun",
                           << "Cannot run generation. Please resolve the API Key issue displayed above." >>))
       ELSE IF Truthy(subject)
       THEN \E ep \in EndpointOutcomes :
                LET g == image_prompt_call(generated_script, subject, style, mood, model_name, ep)
                IN  /\ calls' = calls + g.calls
                    /\ lastEndpoint' = ep
                    /\ lastRequest' = g.request
                    /\ alerts' = StartupAlerts(cred) \o g.alerts
                    /\ runCompleted' = g.completed
                    /\ generated_script' = g.slot
       ELSE Rejected(Alert("warning", "EmptySubject",
                           << "Please describe your scene first." >>))

Next ==
    \/ SelectMode
    \/ SelectModel
    \/ EditMovieType
    \/ SelectOutputFormat
    \/ SelectLengthStyle
    \/ EditSubject
    \/ SelectStyle
    \/ SelectMood
    \/ ClickGenerateScene
    \/ ClickGenerateImage

Spec == Init /\ [][Next]_vars

TypeOK ==
    /\ cred \in Credentials
    /\ mode \in Range(Modes)
    /\ model_name \in Range(ModelNames)
    /\ clicks \in 0..MaxClicks
    /\ calls \in Nat
    /\ runCompleted \in BOOLEAN

(* ------------------------------------------------------------- properties *)
GenerationClicks == { "click_scene", "click_image" }

\* The response carries a first choice whose content is a string.
Usable(ep) == ep.kind = "response" /\ ep.choices # << >> /\ ep.choices[1].hasContent

\* r is c without its leading and trailing whitespace.
IsTrimOf(r, c) ==
    \E i \in 0..Len(c), j \in 0..Len(c) :
        /\ i + j <= Len(c)
        /\ r = SubSeq(c, i + 1, Len(c) - j)
        /\ \A k \in 1..i : c[k] \in { " ", "\n", "\t" }
        /\ \A k \in (Len(c) - j + 1)..Len(c) : c[k] \in { " ", "\n", "\t" }
        /\ r # << >> => r[1] \notin { " ", "\n", "\t" } /\ r[Len(r)] \notin { " ", "\n", "\t" }

\* text is what a generation with endpoint outcome ep is said to yield:
\* the trimmed first content, or the sentinel when there is none.
IsResultOf(text, ep) ==
    IF Usable(ep) THEN IsTrimOf(text, ep.choices[1].content) ELSE text = Sentinel

C2_NoFaultPropagates == lastRequest.issued => runCompleted

C2_UnusableResponseHandled ==
    /\ lastRequest.issued
    /\ lastEndpoint.kind = "response"
    /\ ~ Usable(lastEndpoint)
    /\ runCompleted

\* C3: a fault of the call in generate_creative_content is reported by
\* exactly one error: AccessRestricted if the text has
\* "organization_restricted", else InvalidCredential if it has
\* "Invalid API Key", else Unclassified with the raw text in the message.
C3_FaultClassification ==
    (lastAction = "click_scene" /\ lastEndpoint.kind = "fault") =>
        LET t == lastEndpoint.text
            expected ==
                IF \E i \in 1..Len(t) : t[i] = "organization_restricted"
                THEN "AccessRestricted"
                ELSE IF \E i \in 1..Len(t) : t[i] = "Invalid API Key"
                THEN "InvalidCredential"
                ELSE "Unclassified"
        IN  /\ Len(alerts) = 1
            /\ alerts[1].level = "error"
            /\ alerts[1].kind = expected
            /\ expected = "Unclassified"
                   => alerts[1].text = << "Error generating content: " >> \o t

C3_BothMarkersSeen ==
    /\ lastAction = "click_scene"
    /\ lastEndpoint.kind = "fault"
    /\ lastEndpoint.text = << "Invalid API Key", "organization_restricted" >>
    /\ Len(alerts) = 1
    /\ alerts[1].kind = "AccessRestricted"

\* C4: a generation click issues at most one completion call, exactly one
\* when the client exists and the free text is not empty, and nothing else
\* issues a call; so the calls never outnumber the clicks.
C4_OneCallPerClick ==
    [][ /\ calls' \in { calls, calls + 1 }
        /\ calls' # calls => clicks' = clicks + 1
        /\ ( /\ clicks' = clicks + 1
             /\ cred = "ok"
             /\ \/ mode = Modes[1] /\ movie_type_input # << >>
                \/ mode = Modes[2] /\ subject # << >> )
               => calls' = calls + 1
        /\ calls' <= clicks' ]_vars

C4_FaultThenSecondClick ==
    /\ clicks = 2
    /\ calls = 1
    /\ lastEndpoint.kind = "fault"

C7_NoClientNoCall ==
    cred # "ok" =>
        /\ calls = 0
        /\ ~ lastRequest.issued
        /\ lastEndpoint = NoCall
        /\ lastAction \in GenerationClicks =>
               /\ Len(alerts) = 2
               /\ alerts[2].level = "error"
               /\ alerts[2].kind = "CannotRun"

C7_InitFailedClickRefused ==
    /\ cred = "init_failed"
    /\ lastAction = "click_scene"
    /\ movie_type_input = << "Horror" >>
    /\ clicks = 2
    /\ alerts[2].kind = "CannotRun"

FormatFragments == { StoryboardFragment, DialogFragment, ShootingFragment }

LengthFragments == { TikTokFragment, YouTubeFragment, FilmFragment }

ExpectedFormatFragment(f) ==
    CASE f = "Storyboard Text" -> StoryboardFragment
      [] f = "Dialog Script" -> DialogFragment
      [] f = "Shooting Script" -> ShootingFragment

ExpectedLengthFragment(l) ==
    CASE l = "TikTok (Short Video - ~30s)" -> TikTokFragment
      [] l = "YouTube (Medium Video - 1-3 min)" -> YouTubeFragment
      [] l = "Film Scene (Longer Scene - 3+ min)" -> FilmFragment

\* C8: the prompt of a scene request is, in this order, the preamble with
\* topic, format and length, the shot sentence with the 18 catalog entries
\* in catalog order, the one fragment of the format, the one fragment of
\* the length, and the closing instruction; no other fragment occurs, and
\* the prompt is fixed by (topic, format, length).
C8_PromptLayout ==
    lastRequest.site = "scene" =>
        LET p == lastRequest.prompt
            t == movie_type_input
            f == output_format_input
            l == video_length_style_input
            b == 7 + Len(t)
        IN  /\ Len(p) = b + 39
            /\ SubSeq(p, 1, 2) = << PreambleText, "Movie Type: " >>
            /\ SubSeq(p, 3, 2 + Len(t)) = t
            /\ SubSeq(p, 3 + Len(t), 6 + Len(t))
                   = << "Output Format: ", f, "Video Length/Style: ", l >>
            /\ p[b] = ShotPrefix
            /\ \A i \in 1..18 : p[b + 2 * i - 1] = MOVIE_SHOT_TYPES[i]
            /\ \A i \in 1..17 : p[b + 2 * i] = ", "
            /\ p[b + 36] = "."
            /\ p[b + 37] = ExpectedFormatFragment(f)
            /\ p[b + 38] = ExpectedLengthFragment(l)
            /\ p[b + 39] = ClosingText
            /\ Range(p) \cap FormatFragments = { ExpectedFormatFragment(f) }
            /\ Range(p) \cap LengthFragments = { ExpectedLengthFragment(l) }

C8_DialogTikTokPromptSent ==
    /\ lastRequest.site = "scene"
    /\ lastRequest.topic = << "Horror" >>
    /\ output_format_input = "Dialog Script"
    /\ video_length_style_input = "TikTok (Short Video - ~30s)"
    /\ DialogFragment \in Range(lastRequest.prompt)
    /\ TikTokFragment \in Range(lastRequest.prompt)

\* C9: when the response has a first choice with content, the slot holds
\* that content without its surrounding whitespace and no error is shown,
\* in both modes and whatever the later choices are.
C9_SuccessIsTrimmedFirstChoice ==
    Usable(lastEndpoint) =>
        /\ IsTrimOf(generated_script, lastEndpoint.choices[1].content)
        /\ \A i \in 1..Len(alerts) : alerts[i].level # "error"
        /\ runCompleted

C9_PaddedFirstOfTwoChoices ==
    /\ lastAction = "click_image"
    /\ Len(lastEndpoint.choices) = 2
    /\ lastEndpoint.choices[1].content = << " ", "a", " " >>
    /\ generated_script = << "a" >>

\* C10: a rerun that issues no request (a rejected generation click, a mode
\* switch, a change of format, length, style, mood, model or free text)
\* leaves the result slot as it was, and the slot is empty as long as no
\* request has been issued.
C10_SlotFrame ==
    [][ /\ ~ lastRequest'.issued => generated_script' = generated_script
        /\ calls = 0 => generated_script = << >>
        /\ calls' = 0 => generated_script' = << >> ]_vars

C10_ResultKeptAfterRejectedClick ==
    /\ lastAction = "click_scene"
    /\ ~ lastRequest.issued
    /\ movie_type_input = << >>
    /\ generated_script = << "a" >>

====
